---- MODULE Spec2Model ----
(***************************************************************************)
(* Model of src/proxy.rs of ldap-proxy: one client session driven by       *)
(* client_process, and the backend client BasicLdapClient (build, bind).   *)
(* The process position pc follows the await points of the code.           *)
(***************************************************************************)
EXTENDS Integers, Sequences, FiniteSets, TLC

VARIABLES
    addrs,      \* app_state.addrs: the configured backend addresses
    pc,         \* position of client_process
    state,      \* the ClientState of the session
    nread,      \* number of client messages r.next() has yielded
    cur,        \* the protomsg being handled (the last one read)
    out,        \* every w.send to the client, in order, with its outcome
    clients,    \* every BasicLdapClient built so far
    client,     \* the local `client` of the bind arm (index in clients, 0: none)
    aiter,      \* BasicLdapClient::build: addresses consumed from aiter
    attempts,   \* BasicLdapClient::build: connect attempts of the current call
    tcpstream,  \* BasicLdapClient::build: address of the connected TcpStream
    connects,   \* number of TcpStream::connect calls made by the session
    lasterr,    \* the LdapError the last failing build/bind returned
    closed,     \* the front-end transport has been closed by the client
    cache,      \* Result Cache: key -> stored CachedValue or NoEntry
    now,        \* the clock the cache reads (Instant::now)
    lastput,    \* per key, the value and expiry of the most recent put
    lastop      \* the last cache operation and what it returned

\* The variables of the Result Cache
cachevars == <<cache, now, lastput, lastop>>

\* The variables of the client session
sessionvars == <<addrs, pc, state, nread, cur, out, clients, client, aiter,
                 attempts, tcpstream, connects, lasterr, closed>>

vars == <<sessionvars, cachevars>>

----------------------------------------------------------------------------
(* Bounds *)

MaxMsgs == 2
MaxAddrs == 2

----------------------------------------------------------------------------
(* Values *)

\* msg_counter is an i32
I32Max == 2147483647

NoAddr == 0
SocketAddrOf(i) == 10 + i

\* app_state.binddn_map: bind dn -> DnConfig
binddn_map == [d \in {"cn=alice", "cn=bob"} |-> [cfg |-> d]]

\* The policy check of a DnConfig: in this configuration cn=alice may
\* search and cn=bob may not
SearchPermitted(config, sr) == sr.op = "SearchRequest" /\ config.cfg = "cn=alice"

ClientDns == {"cn=alice", "cn=bob", "cn=mallory"}
ClientMsgIds == {1, 7}
OtherOps == {"ModifyRequest"}

\* The LdapMsg values the client may send
ClientMsgs ==
    [msgid : ClientMsgIds, op : {"BindRequest"}, dn : ClientDns]
    \cup [msgid : ClientMsgIds,
          op : {"UnbindRequest", "SearchRequest"} \cup OtherOps, dn : {""}]

NoMsg == [msgid |-> 0, op |-> "None", dn |-> ""]

BackendCodes == {"Success", "InvalidCredentials"}
BackendMessages == {"", "detail"}
BackendMsgIds == {1, 9}

\* What self.r.next() of the backend transport may yield
BackendReplies ==
    [kind : {"msg"}, op : {"BindResponse"}, msgid : BackendMsgIds,
     code : BackendCodes, matcheddn : {""}, message : BackendMessages]
    \cup [kind : {"msg"}, op : {"SearchResultDone"}, msgid : BackendMsgIds,
          code : {"Success"}, matcheddn : {""}, message : {""}]
    \cup [kind : {"err", "closed"}, op : {"None"}, msgid : {0},
          code : {"None"}, matcheddn : {""}, message : {""}]

\* No bind response received yet on a backend session
NoResp == [code |-> "None", message |-> ""]

Unbound == [tag |-> "Unbound", dn |-> "", client |-> 0]
Authenticated(dn, c) == [tag |-> "Authenticated", dn |-> dn, client |-> c]

bind_operror_detail(msgid, msg) ==
    [msgid |-> msgid, op |-> "BindResponse", code |-> "NoSuchObject",
     matcheddn |-> "", message |-> msg]

bind_operror(msgid, msg) ==
    [msgid |-> msgid, op |-> "BindResponse", code |-> "OperationsError",
     matcheddn |-> "", message |-> msg]

----------------------------------------------------------------------------
(* Helpers of the process *)

\* w.send(resp_msg) of the bind arm for request number req
Sent(req, msg, ok) == Append(out, [req |-> req, msg |-> msg, ok |-> ok])

DropAllLeak == [i \in DOMAIN clients |-> clients[i]]

\* Leaving client_process drops state and the local client: every
\* BasicLdapClient is closed.
DropAll == [i \in DOMAIN clients |-> [clients[i] EXCEPT !.open = FALSE]]

\* Dropping the value of one ClientState
DropState(cs, st) ==
    IF st.tag = "Authenticated"
    THEN [cs EXCEPT ![st.client].open = FALSE]
    ELSE cs

\* Dropping the local client
DropClient(cs, c) == IF c = 0 THEN cs ELSE [cs EXCEPT ![c].open = FALSE]

BuildLocalsUnchanged == UNCHANGED <<aiter, attempts, tcpstream>>

----------------------------------------------------------------------------
(* Result Cache: CachedValue, get and put *)

MaxTime == 3
CacheBudget == 286

\* Fixed part of CachedValue::size(): the test value, whose only
\* variable-length content is "dn=doo" and "ohno", has size 144
SizeOverhead == 134

CacheSessions == {1, 2}
CacheKeys == {"k1", "k2"}
CacheTtls == {1, 2}

\* Length in bytes of the strings the model stores
StrLen(str) ==
    CASE str = "" -> 0
      [] str = "ohno" -> 4
      [] str = "cn=a" -> 4
      [] str = "cn=b" -> 4
      [] str = "dn=doo" -> 6

\* The (entries, result, ctrl) tuples the backend may have answered
CachedValues ==
    { [entries |-> <<>>,
       result |-> [code |-> "Busy", matcheddn |-> "dn=doo", message |-> "ohno"],
       ctrl |-> <<>>],
      [entries |-> <<"cn=a", "cn=b">>,
       result |-> [code |-> "Success", matcheddn |-> "", message |-> ""],
       ctrl |-> <<>>] }

\* Option::None of get, and the empty slot of the table
NoValue ==
    [entries |-> <<>>,
     result |-> [code |-> "None", matcheddn |-> "", message |-> ""],
     ctrl |-> <<>>]
NoEntry == [value |-> NoValue, valid_until |-> 0]

RECURSIVE SumLen(_)
SumLen(strs) ==
    IF strs = <<>> THEN 0 ELSE StrLen(Head(strs)) + SumLen(Tail(strs))

\* CachedValue::size(): structural overhead plus the variable-length fields
Size(v) ==
    SizeOverhead + SumLen(v.entries) + StrLen(v.result.matcheddn)
    + StrLen(v.result.message) + SumLen(v.ctrl)

RECURSIVE TotalOver(_, _)
TotalOver(c, keys) ==
    IF keys = {} THEN 0
    ELSE LET k == CHOOSE x \in keys : TRUE
         IN (IF c[k] = NoEntry THEN 0 ELSE Size(c[k].value))
            + TotalOver(c, keys \ {k})

\* Total estimated size of the table
TotalSize(c) == TotalOver(c, CacheKeys)

GetInclusive(c, key, t) ==
    IF c[key] # NoEntry /\ t <= c[key].valid_until
    THEN c[key].value
    ELSE NoValue

\* get(key, now): the live entry of key, or nothing
Get(c, key, t) ==
    IF c[key] # NoEntry /\ t < c[key].valid_until
    THEN c[key].value
    ELSE NoValue

\* put(key, value, ttl) before eviction: insert or replace
Put(c, key, v, t, ttl) ==
    [c EXCEPT ![key] = [value |-> v, valid_until |-> t + ttl]]

\* Older entries that put may remove to get back under the budget
Evictions(c, key) ==
    IF TotalSize(c) <= CacheBudget
    THEN {{}}
    ELSE {drop \in SUBSET {k \in CacheKeys \ {key} : c[k] # NoEntry} :
             /\ drop # {}
             /\ \/ TotalSize([k \in CacheKeys |->
                                IF k \in drop THEN NoEntry ELSE c[k]])
                       <= CacheBudget
                \/ drop = {k \in CacheKeys \ {key} : c[k] # NoEntry}}

NoOp == [op |-> "None", by |-> 0, key |-> "", at |-> 0, res |-> NoValue,
         fresh |-> FALSE]

CacheInit ==
    /\ cache = [k \in CacheKeys |-> NoEntry]
    /\ now = 0
    /\ lastput = [k \in CacheKeys |-> NoEntry]
    /\ lastop = NoOp

\* A session stores the result set it received for key
CachePut(s, key, v, ttl) ==
    /\ \E drop \in Evictions(Put(cache, key, v, now, ttl), key) :
           cache' = [k \in CacheKeys |->
                        IF k \in drop THEN NoEntry
                        ELSE Put(cache, key, v, now, ttl)[k]]
    /\ lastput' = [lastput EXCEPT
                      ![key] = [value |-> v, valid_until |-> now + ttl]]
    /\ lastop' = [op |-> "put", by |-> s, key |-> key, at |-> now,
                  res |-> NoValue, fresh |-> FALSE]
    /\ UNCHANGED <<now, sessionvars>>

\* A session looks key up
CacheGet(s, key) ==
    /\ lastop' = [op |-> "get", by |-> s, key |-> key, at |-> now,
                  res |-> Get(cache, key, now),
                  fresh |-> (lastop.op = "put" /\ lastop.key = key)]
    /\ UNCHANGED <<cache, now, lastput, sessionvars>>

\* Time passes
CacheTick ==
    /\ now < MaxTime
    /\ now' = now + 1
    /\ UNCHANGED <<cache, lastput, lastop, sessionvars>>

CacheNext ==
    \/ \E s \in CacheSessions, key \in CacheKeys, v \in CachedValues,
          ttl \in CacheTtls : CachePut(s, key, v, ttl)
    \/ \E s \in CacheSessions, key \in CacheKeys : CacheGet(s, key)
    \/ CacheTick

Init ==
    /\ addrs \in {[i \in 1..n |-> SocketAddrOf(i)] : n \in 0..MaxAddrs}
    /\ pc = "read"
    /\ state = Unbound
    /\ nread = 0
    /\ cur = NoMsg
    /\ out = <<>>
    /\ clients = <<>>
    /\ client = 0
    /\ aiter = 0
    /\ attempts = <<>>
    /\ tcpstream = NoAddr
    /\ connects = 0
    /\ lasterr = "None"
    /\ closed = FALSE
    /\ CacheInit

----------------------------------------------------------------------------
(* client_process: r.next() and the dispatch on (state, protomsg) *)

ReadBindNoConfigTwice(m, ok) ==
    /\ pc = "read" /\ nread < MaxMsgs /\ ~closed
    /\ m.op = "BindRequest"
    /\ m.dn \notin DOMAIN binddn_map
    /\ nread' = nread + 1
    /\ cur' = m
    /\ out' = Append(Sent(nread + 1, bind_operror(m.msgid, "unable to bind"), ok),
                     [req |-> nread + 1,
                      msg |-> bind_operror(m.msgid, "unable to bind"),
                      ok |-> ok])
    /\ IF ok
       THEN /\ pc' = "read"
            /\ UNCHANGED clients
       ELSE /\ pc' = "done"
            /\ clients' = DropAll
    /\ UNCHANGED <<addrs, closed, cachevars, state, client, connects, lasterr>>
    /\ BuildLocalsUnchanged

\* binddn_map.get(&lbr.dn) is None: operror reply, continue (break when the
\* reply cannot be written)
ReadBindNoConfig(m, ok) ==
    /\ pc = "read" /\ nread < MaxMsgs /\ ~closed
    /\ m.op = "BindRequest"
    /\ m.dn \notin DOMAIN binddn_map
    /\ nread' = nread + 1
    /\ cur' = m
    /\ out' = Sent(nread + 1, bind_operror(m.msgid, "unable to bind"), ok)
    /\ IF ok
       THEN /\ pc' = "read"
            /\ UNCHANGED clients
       ELSE /\ pc' = "done"
            /\ clients' = DropAll
    /\ UNCHANGED <<addrs, closed, cachevars, state, client, connects, lasterr>>
    /\ BuildLocalsUnchanged

\* binddn_map.get(&lbr.dn) is Some: enter BasicLdapClient::build
ReadBindConfig(m) ==
    /\ pc = "read" /\ nread < MaxMsgs /\ ~closed
    /\ m.op = "BindRequest"
    /\ m.dn \in DOMAIN binddn_map
    /\ nread' = nread + 1
    /\ cur' = m
    /\ pc' = "build"
    /\ aiter' = 0
    /\ attempts' = <<>>
    /\ tcpstream' = NoAddr
    /\ UNCHANGED <<addrs, closed, cachevars, state, out, clients, client, connects, lasterr>>

ReadUnbindNoBreak(m) ==
    /\ pc = "read" /\ nread < MaxMsgs /\ ~closed
    /\ m.op = "UnbindRequest"
    /\ nread' = nread + 1
    /\ cur' = m
    /\ pc' = "read"
    /\ UNCHANGED <<addrs, closed, cachevars, state, out, clients, client, connects, lasterr>>
    /\ BuildLocalsUnchanged

\* Unbinds are always actioned: break
ReadUnbind(m) ==
    /\ pc = "read" /\ nread < MaxMsgs /\ ~closed
    /\ m.op = "UnbindRequest"
    /\ nread' = nread + 1
    /\ cur' = m
    /\ pc' = "done"
    /\ clients' = DropAll
    /\ UNCHANGED <<addrs, closed, cachevars, state, out, client, connects, lasterr>>
    /\ BuildLocalsUnchanged

\* Authenticated search: the arm holds comments only (no reply, no backend
\* call, no next state), the loop goes on
ReadSearchAuthenticated(m) ==
    /\ pc = "read" /\ nread < MaxMsgs /\ ~closed
    /\ m.op = "SearchRequest"
    /\ state.tag = "Authenticated"
    /\ nread' = nread + 1
    /\ cur' = m
    /\ pc' = "read"
    /\ UNCHANGED <<addrs, closed, cachevars, state, out, clients, client, connects, lasterr>>
    /\ BuildLocalsUnchanged

ReadUnknownReply(m) ==
    /\ pc = "read" /\ nread < MaxMsgs /\ ~closed
    /\ m.op \notin {"BindRequest", "UnbindRequest"}
    /\ ~(m.op = "SearchRequest" /\ state.tag = "Authenticated")
    /\ nread' = nread + 1
    /\ cur' = m
    /\ out' = Sent(nread + 1, bind_operror(m.msgid, "unable to bind"), TRUE)
    /\ pc' = "done"
    /\ clients' = DropAll
    /\ UNCHANGED <<addrs, closed, cachevars, state, client, connects, lasterr>>
    /\ BuildLocalsUnchanged

\* Unknown message handler: todo!() panics, the task ends and its values
\* are dropped
ReadUnknown(m) ==
    /\ pc = "read" /\ nread < MaxMsgs /\ ~closed
    /\ m.op \notin {"BindRequest", "UnbindRequest"}
    /\ ~(m.op = "SearchRequest" /\ state.tag = "Authenticated")
    /\ nread' = nread + 1
    /\ cur' = m
    /\ pc' = "panic"
    /\ clients' = DropAll
    /\ UNCHANGED <<addrs, closed, cachevars, state, out, client, connects, lasterr>>
    /\ BuildLocalsUnchanged

\* r.next() yields None or Some(Err(_)): the while let ends
ReadEnd ==
    /\ pc = "read"
    /\ pc' = "done"
    /\ clients' = DropAll
    /\ UNCHANGED <<addrs, closed, cachevars, state, nread, cur, out, client, connects, lasterr>>
    /\ BuildLocalsUnchanged

\* The client closes the front-end transport; the session is not polling
\* it unless it is at r.next()
FrontendClose ==
    /\ ~closed
    /\ pc \notin {"done", "panic"}
    /\ closed' = TRUE
    /\ UNCHANGED <<addrs, pc, state, nread, cur, out, clients, client, aiter,
                   attempts, tcpstream, connects, lasterr, cachevars>>

----------------------------------------------------------------------------
(* BasicLdapClient::build, called from the bind arm *)

\* The Err(e) arm of the build match: operror reply, always bail
BuildErr(e, ok) ==
    /\ lasterr' = e
    /\ out' = Sent(nread, bind_operror(cur.msgid, "unable to bind"), ok)
    /\ pc' = "done"
    /\ clients' = DropAll
    /\ UNCHANGED <<addrs, closed, cachevars, state, nread, cur, client>>

BuildConnectReversed(res) ==
    /\ pc = "build"
    /\ aiter < Len(addrs)
    /\ aiter' = aiter + 1
    /\ attempts' = Append(attempts, [addr |-> addrs[Len(addrs) - aiter],
                                     res |-> res])
    /\ connects' = connects + 1
    /\ IF res = "ok"
       THEN /\ tcpstream' = addrs[Len(addrs) - aiter]
            /\ pc' = "tls"
       ELSE /\ tcpstream' = tcpstream
            /\ pc' = "build"
    /\ UNCHANGED <<addrs, closed, cachevars, state, nread, cur, out, clients, client, lasterr>>

\* One turn of the connect loop: aiter.next() is Some(addr); the connect
\* races the 5s sleep
BuildConnect(res) ==
    /\ pc = "build"
    /\ aiter < Len(addrs)
    /\ aiter' = aiter + 1
    /\ attempts' = Append(attempts, [addr |-> addrs[aiter + 1], res |-> res])
    /\ connects' = connects + 1
    /\ IF res = "ok"
       THEN /\ tcpstream' = addrs[aiter + 1]
            /\ pc' = "tls"
       ELSE /\ tcpstream' = tcpstream
            /\ pc' = "build"
    /\ UNCHANGED <<addrs, closed, cachevars, state, nread, cur, out, clients, client, lasterr>>

BuildExhaustedEarly(ok) ==
    /\ pc = "build"
    /\ (aiter >= Len(addrs) \/ aiter >= 1)
    /\ BuildErr("ConnectError", ok)
    /\ UNCHANGED <<aiter, attempts, tcpstream, connects>>

\* aiter.next() is None: return Err(ConnectError)
BuildExhausted(ok) ==
    /\ pc = "build"
    /\ aiter >= Len(addrs)
    /\ BuildErr("ConnectError", ok)
    /\ UNCHANGED <<aiter, attempts, tcpstream, connects>>

BuildTlsErrorNextAddr(ok) ==
    /\ pc = "tls"
    /\ ok \in BOOLEAN
    /\ pc' = "build"
    /\ tcpstream' = NoAddr
    /\ UNCHANGED <<addrs, closed, cachevars, state, nread, cur, out, clients,
                   client, aiter, attempts, connects, lasterr>>

\* Ssl::new / SslStream::new / SslStream::connect fail: Err(TlsError)
BuildTlsError(ok) ==
    /\ pc = "tls"
    /\ BuildErr("TlsError", ok)
    /\ UNCHANGED <<aiter, attempts, tcpstream, connects>>

\* The handshake completes: Ok(BasicLdapClient { r, w, msg_counter: 0 })
BuildOk ==
    /\ pc = "tls"
    /\ clients' = Append(clients, [addr |-> tcpstream, msg_counter |-> 0,
                                   sent |-> <<>>, recv |-> "None",
                                   resp |-> NoResp, open |-> TRUE])
    /\ client' = Len(clients) + 1
    /\ pc' = "bind"
    /\ aiter' = 0
    /\ attempts' = <<>>
    /\ tcpstream' = NoAddr
    /\ UNCHANGED <<addrs, closed, cachevars, state, nread, cur, out, connects, lasterr>>

----------------------------------------------------------------------------
(* BasicLdapClient::bind, called from the bind arm *)

next_msgid_stale(msg_counter) == msg_counter

\* self.msg_counter += 1 on an i32 (wrapping at I32Max)
next_msgid(msg_counter) ==
    IF msg_counter = I32Max THEN (-I32Max) - 1 ELSE msg_counter + 1

\* What self.r.next() yielded: the operation kind of a decoded message,
\* "err" for Some(Err(_)), "closed" for None
Received(reply) == IF reply.kind = "msg" THEN reply.op ELSE reply.kind

BindResultClosedIsProtocol(reply) ==
    IF reply.kind = "msg" /\ reply.op = "BindResponse" THEN "Ok"
    ELSE IF reply.kind = "msg" \/ reply.kind = "closed"
         THEN "InvalidProtocolState"
    ELSE "Transport"

\* The match on self.r.next().await
BindResult(reply) ==
    IF reply.kind = "msg" /\ reply.op = "BindResponse" THEN "Ok"
    ELSE IF reply.kind = "msg" THEN "InvalidProtocolState"
    ELSE "Transport"

ValidAnyCode(bind_resp) == bind_resp.code = bind_resp.code

\* bind_resp.res.code == LdapResultCode::Success
Valid(bind_resp) == bind_resp.code = "Success"

RelayMsgBackendId(msgid, bind_resp) ==
    [msgid |-> bind_resp.msgid, op |-> "BindResponse", code |-> bind_resp.code,
     matcheddn |-> bind_resp.matcheddn, message |-> bind_resp.message]

\* LdapMsg { msgid, op: LdapOp::BindResponse(bind_resp), ctrl }
RelayMsg(msgid, bind_resp) ==
    [msgid |-> msgid, op |-> "BindResponse", code |-> bind_resp.code,
     matcheddn |-> bind_resp.matcheddn, message |-> bind_resp.message]

BindErrNoBail(cs, e, ok) ==
    /\ lasterr' = e
    /\ out' = Sent(nread, bind_operror(cur.msgid, "unable to bind"), ok)
    /\ pc' = "read"
    /\ clients' = DropClient(cs, client)
    /\ client' = 0
    /\ UNCHANGED <<addrs, closed, cachevars, state, nread, cur, connects>>
    /\ BuildLocalsUnchanged

\* The Err(e) arm of the bind match: operror reply, always bail
BindErr(cs, e, ok) ==
    /\ lasterr' = e
    /\ out' = Sent(nread, bind_operror(cur.msgid, "unable to bind"), ok)
    /\ pc' = "done"
    /\ clients' = [i \in DOMAIN cs |-> [cs[i] EXCEPT !.open = FALSE]]
    /\ client' = 0
    /\ UNCHANGED <<addrs, closed, cachevars, state, nread, cur, connects>>
    /\ BuildLocalsUnchanged

\* next_msgid and self.w.send(msg): the request goes out
BindSend ==
    /\ pc = "bind"
    /\ LET id == next_msgid(clients[client].msg_counter)
       IN clients' = [clients EXCEPT
              ![client].msg_counter = id,
              ![client].sent = Append(@, [msgid |-> id, op |-> "BindRequest",
                                          dn |-> cur.dn])]
    /\ pc' = "bind_wait"
    /\ UNCHANGED <<addrs, closed, cachevars, state, nread, cur, out, client, connects, lasterr>>
    /\ BuildLocalsUnchanged

\* self.w.send(msg) fails: Err(Transport)
BindSendError(ok) ==
    /\ pc = "bind"
    /\ BindErr([clients EXCEPT ![client].msg_counter = next_msgid(@)],
               "Transport", ok)

\* self.r.next() does not yield a bind response: Err(..)
BindRecvError(reply, ok) ==
    /\ pc = "bind_wait"
    /\ BindResult(reply) # "Ok"
    /\ BindErr([clients EXCEPT ![client].recv = Received(reply)],
               BindResult(reply), ok)

BindRecvOkIgnoreWrite(reply, ok) ==
    /\ pc = "bind_wait"
    /\ BindResult(reply) = "Ok"
    /\ out' = Sent(nread, RelayMsg(cur.msgid, reply), ok)
    /\ client' = 0
    /\ pc' = "read"
    /\ LET cs == [clients EXCEPT
                     ![client].recv = Received(reply),
                     ![client].resp = [code |-> reply.code,
                                       message |-> reply.message]]
       IN IF Valid(reply)
          THEN /\ state' = Authenticated(cur.dn, client)
               /\ clients' = DropState(cs, state)
          ELSE /\ state' = state
               /\ clients' = DropClient(cs, client)
    /\ UNCHANGED <<addrs, closed, cachevars, nread, cur, connects, lasterr>>
    /\ BuildLocalsUnchanged

\* self.r.next() yields a bind response: relay it, then Some(Authenticated)
\* when valid and None otherwise (break when the relay cannot be written)
BindRecvOk(reply, ok) ==
    /\ pc = "bind_wait"
    /\ BindResult(reply) = "Ok"
    /\ out' = Sent(nread, RelayMsg(cur.msgid, reply), ok)
    /\ client' = 0
    /\ LET cs == [clients EXCEPT
                     ![client].recv = Received(reply),
                     ![client].resp = [code |-> reply.code,
                                       message |-> reply.message]]
       IN IF ~ok
          THEN /\ pc' = "done"
               /\ clients' = [i \in DOMAIN cs |-> [cs[i] EXCEPT !.open = FALSE]]
               /\ state' = state
          ELSE /\ pc' = "read"
               /\ IF Valid(reply)
                  THEN /\ state' = Authenticated(cur.dn, client)
                       /\ clients' = DropState(cs, state)
                  ELSE /\ state' = state
                       /\ clients' = DropClient(cs, client)
    /\ UNCHANGED <<addrs, closed, cachevars, nread, cur, connects, lasterr>>
    /\ BuildLocalsUnchanged

----------------------------------------------------------------------------

Next ==
    \/ \E m \in ClientMsgs, ok \in BOOLEAN : ReadBindNoConfig(m, ok)
    \/ \E m \in ClientMsgs : ReadBindConfig(m)
    \/ \E m \in ClientMsgs : ReadUnbind(m)
    \/ \E m \in ClientMsgs : ReadSearchAuthenticated(m)
    \/ \E m \in ClientMsgs : ReadUnknown(m)
    \/ ReadEnd
    \/ FrontendClose
    \/ \E res \in {"ok", "err", "timeout"} : BuildConnect(res)
    \/ \E ok \in BOOLEAN : BuildExhausted(ok)
    \/ \E ok \in BOOLEAN : BuildTlsError(ok)
    \/ BuildOk
    \/ BindSend
    \/ \E ok \in BOOLEAN : BindSendError(ok)
    \/ \E reply \in BackendReplies, ok \in BOOLEAN : BindRecvError(reply, ok)
    \/ \E reply \in BackendReplies, ok \in BOOLEAN : BindRecvOk(reply, ok)

Spec == Init /\ [][Next]_vars

\* The Result Cache used by concurrent sessions
CacheSpec == Init /\ [][CacheNext]_vars

\* What the runtime guarantees: a closed front-end is seen at r.next(), and
\* every connect attempt ends (connection, error or the 5s timeout). The TLS
\* handshake and the backend's answer have no timeout.
FairSpec ==
    /\ Spec
    /\ WF_vars(closed /\ ReadEnd)
    /\ WF_vars(\E res \in {"ok", "err", "timeout"} : BuildConnect(res))
    /\ WF_vars(\E ok \in BOOLEAN : BuildExhausted(ok))

TypeOK ==
    /\ pc \in {"read", "build", "tls", "bind", "bind_wait", "done", "panic"}
    /\ state.tag \in {"Unbound", "Authenticated"}
    /\ nread \in 0..MaxMsgs
    /\ client \in 0..Len(clients)

----------------------------------------------------------------------------
(* Properties of the client session *)

\* The step that reads client message m and starts handling it
Reads(op) == nread' = nread + 1 /\ cur'.op = op

\* The responses written (or attempted) for request number req
ResponsesTo(req) == {i \in DOMAIN out : out[i].req = req}

\* The backend sessions that are still open
OpenClients == {i \in DOMAIN clients : clients[i].open}

\* The generic failure reply for the request being handled
GenericReply(msgid) ==
    [msgid |-> msgid, op |-> "BindResponse", code |-> "OperationsError",
     matcheddn |-> "", message |-> "unable to bind"]

\* C1: the session is Authenticated{dn} only if dn is in the authorization
\* map and the backend session held by the state was sent the bind request
\* for dn and answered it with a bind response of code Success.
C1_AuthenticatedOnlyBySuccess ==
    state.tag = "Authenticated" =>
        /\ state.dn \in DOMAIN binddn_map
        /\ state.client \in DOMAIN clients
        /\ clients[state.client].resp.code = "Success"
        /\ Len(clients[state.client].sent) = 1
        /\ clients[state.client].sent[1].op = "BindRequest"
        /\ clients[state.client].sent[1].dn = state.dn

\* C1 case: a re-bind made the session Authenticated as a second identity
C1_Witness ==
    /\ state.tag = "Authenticated"
    /\ state.client = 2
    /\ state.dn # clients[1].sent[1].dn

\* C2: after a bind request whose DN is not in the authorization map has
\* been handled, the state of the session (which reads on) is Unbound,
\* whatever it was before.
C2_UnknownDnLeavesUnbound ==
    (cur.op = "BindRequest" /\ cur.dn \notin DOMAIN binddn_map /\ pc = "read")
        => state.tag = "Unbound"

\* C3 (as stated): a bind with a DN outside the authorization map gets
\* exactly one generic OperationsError bind response, causes no backend
\* connection attempt, and the session goes on to read the next message.
C3_UnknownDnReplyAndContinue ==
    [][(Reads("BindRequest") /\ cur'.dn \notin DOMAIN binddn_map) =>
         /\ \E ok \in BOOLEAN :
                out' = Append(out, [req |-> nread', ok |-> ok,
                                    msg |-> GenericReply(cur'.msgid)])
         /\ connects' = connects
         /\ clients' = clients
         /\ pc' = "read"]_vars

\* C3 (amended): as above, but the session goes on to read the next
\* message only when the reply could be written; when the write fails the
\* session ends.
C3_UnknownDnReplyAndContinueIfWritten ==
    [][(Reads("BindRequest") /\ cur'.dn \notin DOMAIN binddn_map) =>
         /\ \E ok \in BOOLEAN :
                /\ out' = Append(out, [req |-> nread', ok |-> ok,
                                       msg |-> GenericReply(cur'.msgid)])
                /\ pc' = IF ok THEN "read" ELSE "done"
         /\ connects' = connects
         /\ Len(clients') = Len(clients)
         /\ \A i \in DOMAIN clients : clients'[i].sent = clients[i].sent
         /\ state' = state]_vars

\* C3 case: an unknown DN was refused and the session is reading again
C3_Witness ==
    /\ cur.op = "BindRequest"
    /\ cur.dn \notin DOMAIN binddn_map
    /\ pc = "read"
    /\ ResponsesTo(nread) # {}
    /\ \A i \in ResponsesTo(nread) : out[i].ok

\* The step in which the backend answers the forwarded bind
BackendAnswers ==
    /\ pc = "bind_wait"
    /\ clients'[client].resp # NoResp

\* C4: when the backend answers the forwarded bind with a non-Success code,
\* the reply to the client carries that code and message, the new backend
\* session is discarded, and the state the session goes on with is Unbound.
C4_FailedBindLeavesUnbound ==
    [][(BackendAnswers /\ clients'[client].resp.code # "Success") =>
         /\ Len(out') = Len(out) + 1
         /\ out'[Len(out')].req = nread
         /\ out'[Len(out')].msg.code = clients'[client].resp.code
         /\ out'[Len(out')].msg.message = clients'[client].resp.message
         /\ ~clients'[client].open
         /\ (pc' = "read" => state'.tag = "Unbound")]_vars

\* C5: while a bind is being evaluated (from the first connection attempt
\* on) the prior state has been released, and the session never holds more
\* than one open backend session.
C5_AtMostOneBackendSession ==
    /\ pc \in {"build", "tls", "bind", "bind_wait"} => state.tag = "Unbound"
    /\ Cardinality(OpenClients) <= 1

\* C6: a backend failure during a bind (build or bind returning an error)
\* is answered by at most one reply, the generic OperationsError one, the
\* session terminates, and the state is not changed.
C6_BackendFailureTerminates ==
    [][(lasterr' # "None") =>
         /\ pc' = "done"
         /\ state' = state
         /\ nread' = nread
         /\ (lasterr = "None" =>
                /\ \E ok \in BOOLEAN :
                       out' = Append(out, [req |-> nread, ok |-> ok,
                                           msg |-> GenericReply(cur.msgid)])
                /\ ResponsesTo(nread) = {})
         /\ (lasterr # "None" => out' = out)]_vars

\* C6 case: the backend answered the bind with another operation kind
C6_Witness ==
    /\ lasterr = "InvalidProtocolState"
    /\ pc = "done"
    /\ Cardinality(ResponsesTo(nread)) = 1

\* C7: an unbind ends the session at once: nothing is written for it and
\* it stays the last message the session has read.
C7_UnbindTerminates ==
    cur.op = "UnbindRequest" =>
        /\ pc = "done"
        /\ ResponsesTo(nread) = {}

\* C7 case: an unbind was received while Authenticated
C7_Witness ==
    /\ cur.op = "UnbindRequest"
    /\ state.tag = "Authenticated"

C9_OneInOneOut ==
    /\ \A i \in DOMAIN out : out[i].req \in 1..nread
    /\ \A i, j \in DOMAIN out : i < j => out[i].req < out[j].req
    /\ pc = "read" => \A n \in 1..nread : Cardinality(ResponsesTo(n)) <= 1

\* C9 case: two requests were answered, one response each
C9_Witness ==
    /\ Len(out) = 2
    /\ out[1].req = 1
    /\ out[2].req = 2

\* The connect attempts of the current build call follow the address list
AttemptsInListOrder ==
    /\ Len(attempts) <= Len(addrs)
    /\ \A i \in DOMAIN attempts :
           /\ attempts[i].addr = addrs[i]
           /\ attempts[i].res = "ok" => i = Len(attempts)
    /\ pc = "build" => \A i \in DOMAIN attempts : attempts[i].res # "ok"
    /\ lasterr = "ConnectError" =>
           /\ Len(attempts) = Len(addrs)
           /\ \A i \in DOMAIN attempts : attempts[i].res # "ok"
    /\ pc = "tls" =>
           /\ attempts # <<>>
           /\ attempts[Len(attempts)].res = "ok"
           /\ tcpstream = attempts[Len(attempts)].addr

\* C10: build tries the addresses in list order, each at most once, goes
\* on after an error or a timeout, stops at the first connect that
\* succeeds, and the transport it returns is on that address.
C10_BuildInListOrder ==
    /\ []AttemptsInListOrder
    /\ [][(pc = "tls" /\ pc' = "bind") =>
            clients'[client'].addr = attempts[Len(attempts)].addr]_vars

\* C10 case: the first address failed and the last one accepted
C10_Witness ==
    /\ pc = "bind"
    /\ Len(addrs) >= 2
    /\ clients[client].addr = addrs[Len(addrs)]

\* C11: build fails with ConnectError exactly when every address of the
\* list has been tried and every attempt failed; with an empty list it
\* fails with ConnectError without a single connect attempt.
C11_ConnectErrorIffExhausted ==
    /\ [](lasterr = "ConnectError" =>
            /\ Len(attempts) = Len(addrs)
            /\ \A i \in DOMAIN attempts : attempts[i].res # "ok"
            /\ (Len(addrs) = 0 => connects = 0))
    /\ [][(pc = "build" /\ pc' # "build" /\ pc' # "tls") =>
            /\ Len(attempts) = Len(addrs)
            /\ lasterr' = "ConnectError"
            /\ connects' = connects]_vars
    /\ [][(pc = "build" /\ Len(attempts) = Len(addrs) /\ pc' # pc) =>
            lasterr' = "ConnectError"]_vars

\* C11 case: two addresses, one refused and one timed out
C11_Witness ==
    /\ lasterr = "ConnectError"
    /\ Len(attempts) >= 2
    /\ attempts[1].res = "err"
    /\ attempts[2].res = "timeout"

\* C12: when the connection is made but the TLS setup or handshake fails,
\* build fails with TlsError and no later address is tried.
C12_TlsErrorStopsBuild ==
    /\ [](lasterr = "TlsError" =>
            /\ pc = "done"
            /\ attempts # <<>>
            /\ attempts[Len(attempts)].res = "ok"
            /\ \A i \in 1..(Len(attempts) - 1) : attempts[i].res # "ok")
    /\ [][(pc = "tls" /\ pc' # "tls" /\ pc' # "bind") =>
            /\ lasterr' = "TlsError"
            /\ pc' = "done"
            /\ connects' = connects
            /\ attempts' = attempts]_vars

\* C12 case: the handshake failed while a later address was still untried
C12_Witness ==
    /\ lasterr = "TlsError"
    /\ Len(attempts) < Len(addrs)

\* C13: on every backend session the message identifiers start at 1 and
\* grow by one per request, none is issued twice, and the first exchange
\* is the bind request with its response.
C13_MessageIds ==
    \A i \in DOMAIN clients :
        LET c == clients[i] IN
        /\ \A j \in DOMAIN c.sent : c.sent[j].msgid = j
        /\ c.msg_counter >= Len(c.sent)
        /\ c.msg_counter >= 0
        /\ (c.msg_counter = 0 => c.sent = <<>>)
        /\ (c.sent # <<>> => c.sent[1].op = "BindRequest"
                             /\ c.msg_counter = Len(c.sent))
        /\ (c.recv # "None" => c.sent # <<>>)

\* C13 case: two backend sessions, each of which sent its bind as message 1
C13_Witness ==
    /\ Len(clients) = 2
    /\ clients[1].sent # <<>> /\ clients[1].sent[1].msgid = 1
    /\ clients[2].sent # <<>> /\ clients[2].sent[1].msgid = 1
    /\ clients[2].resp.code = "Success"

\* C14: when a successful bind is followed by an unbind, no search was
\* ever sent to a backend and the session has ended holding no backend
\* session.
C14_BindThenUnbindReleases ==
    (cur.op = "UnbindRequest" /\ state.tag = "Authenticated") =>
        /\ pc = "done"
        /\ OpenClients = {}
        /\ \A i \in DOMAIN clients : \A j \in DOMAIN clients[i].sent :
               clients[i].sent[j].op # "SearchRequest"

\* C14 case: the unbind came right after the successful bind
C14_Witness ==
    /\ nread = 2
    /\ cur.op = "UnbindRequest"
    /\ state.tag = "Authenticated"
    /\ Len(clients) = 1
    /\ clients[1].resp.code = "Success"

\* C15: once the front-end transport is closed, at whatever suspension
\* point the session is, the session eventually terminates and holds no
\* backend session.
C15_CloseLeadsToRelease ==
    closed ~> (pc \in {"done", "panic"} /\ OpenClients = {})

\* The single search-done result of a silent denial
EmptySearchDone(msgid) ==
    [msgid |-> msgid, op |-> "SearchResultDone", code |-> "Success",
     matcheddn |-> "", message |-> ""]

\* C16: a search received while Authenticated that the policy does not
\* permit is answered by one success-coded search-done result with no
\* entries, without any backend contact, and the session stays
\* Authenticated.
C16_DeniedSearchGetsEmptyResult ==
    [][(Reads("SearchRequest") /\ state.tag = "Authenticated"
        /\ ~SearchPermitted(binddn_map[state.dn], cur')) =>
         /\ \E ok \in BOOLEAN :
                out' = Append(out, [req |-> nread', ok |-> ok,
                                    msg |-> EmptySearchDone(cur'.msgid)])
         /\ connects' = connects
         /\ \A i \in DOMAIN clients : clients'[i].sent = clients[i].sent
         /\ state' = state]_vars

\* C17: whatever the interleaving of puts and gets, a get returns nothing
\* or the value of the most recent put of its key, and a value only before
\* that entry's valid_until; a get right after a put of the same key, made
\* before put_time + ttl, returns the value put.
C17_CacheGetPut ==
    lastop.op = "get" =>
        LET p == lastput[lastop.key] IN
        /\ (lastop.res # NoValue =>
               /\ p # NoEntry
               /\ lastop.res = p.value
               /\ lastop.at < p.valid_until)
        /\ ((p # NoEntry /\ lastop.at >= p.valid_until) =>
               lastop.res = NoValue)
        /\ ((lastop.fresh /\ lastop.at < p.valid_until) =>
               lastop.res = p.value)

\* C17 case: another session replaced the value, and the get sees the
\* replacement before it expires
C17_Witness ==
    /\ lastop.op = "get"
    /\ lastop.fresh
    /\ lastop.res # NoValue
    /\ lastop.at > 0
    /\ lastop.at + 1 = lastput[lastop.key].valid_until

\* How the bind of backend session c ended
WriteFailed(c) == c.msg_counter > Len(c.sent)
BindFailed(c) == WriteFailed(c) \/ c.recv \notin {"None", "BindResponse"}

\* What holds of bind whichever way a closed connection is reported
BindOutcomesCommon(i) ==
    LET c == clients[i] IN
    /\ (c.recv = "BindResponse" =>
           /\ c.resp # NoResp
           /\ (i = Len(clients) =>
                  lasterr \notin {"Transport", "InvalidProtocolState"}))
    /\ (c.recv \notin {"None", "BindResponse", "err", "closed"} =>
           lasterr = "InvalidProtocolState")
    /\ (c.recv = "err" => lasterr = "Transport")
    /\ (WriteFailed(c) => lasterr = "Transport")
    /\ (BindFailed(c) =>
           /\ i = Len(clients)
           /\ pc = "done"
           /\ Len(c.sent) <= 1
           /\ c.resp = NoResp)

\* C18 (as stated): bind returns the bind response when that is the next
\* message; another operation kind, or the connection closed before a
\* response, is InvalidProtocolState; a write failure or a read error is
\* Transport; nothing is retried.
C18_BindOutcomes ==
    \A i \in DOMAIN clients :
        /\ BindOutcomesCommon(i)
        /\ (clients[i].recv = "closed" => lasterr = "InvalidProtocolState")

\* C18 (amended): as above, but the connection closed before a response
\* is reported as Transport.
C18_BindOutcomesClosedIsTransport ==
    \A i \in DOMAIN clients :
        /\ BindOutcomesCommon(i)
        /\ (clients[i].recv = "closed" => lasterr = "Transport")

\* C18 case: the backend closed the connection instead of answering
C18_Witness ==
    /\ clients # <<>>
    /\ clients[Len(clients)].recv = "closed"
    /\ lasterr = "Transport"

\* C19: every bind response written to the client carries the message
\* identifier of the client's bind request it answers.
C19_ResponsesCarryClientMsgId ==
    \A i \in DOMAIN out :
        /\ out[i].msg.op = "BindResponse"
        /\ (out[i].req = nread => out[i].msg.msgid = cur.msgid)

\* C19 case: a relayed response carries the client's 7 although the
\* forwarded request went out as message 1
C19_Witness ==
    /\ out # <<>>
    /\ out[Len(out)].req = nread
    /\ out[Len(out)].msg.code = "Success"
    /\ out[Len(out)].msg.msgid = 7
    /\ clients[Len(clients)].sent[1].msgid = 1

\* C20: when writing a bind response fails the session ends without
\* handling another message; when the response was the relay of a
\* successful backend bind, the session did not become Authenticated on
\* the new backend session, and that session is released.
C20_WriteFailureTerminates ==
    \A i \in DOMAIN out :
        ~out[i].ok =>
            /\ i = Len(out)
            /\ out[i].req = nread
            /\ pc = "done"
            /\ OpenClients = {}
            /\ (out[i].msg.code = "Success" =>
                   /\ clients # <<>>
                   /\ clients[Len(clients)].resp.code = "Success"
                   /\ state.client # Len(clients))

\* C20 case: the backend accepted the bind but the relay could not be
\* written
C20_Witness ==
    /\ out # <<>>
    /\ ~out[Len(out)].ok
    /\ out[Len(out)].msg.code = "Success"
    /\ state.tag = "Unbound"

====
